---- MODULE Spec2Model ----
(***************************************************************************)
(* Rabbit-in-holes: the belief-state engine, its undo, restart and         *)
(* hole-count controls, the replay cursor and the path reconstruction of   *)
(* src/client/App.tsx (the day/night App component, lines 888-1532).       *)
(*                                                                         *)
(* JavaScript arrays are modelled as sequences; the code's index i is the  *)
(* sequence index i + 1.  Hole positions keep the code's 0-based values.   *)
(***************************************************************************)
EXTENDS Integers, Sequences, FiniteSets, TLC

\* ---------------------------------------------------------------- bounds
\* largest hole count the model explores (the code allows up to MAX_HOLES)
MaxHoleCount == 4
\* largest number of turn records the model lets a game accumulate
MaxHistory == 4

\* ------------------------------------------------------ program constants
initialHoleCount == 4
MIN_HOLES == 3
MAX_HOLES == 10

PLAYING == "PLAYING"
WON == "WON"
LOST == "LOST"

\* JavaScript null of a `number | null` state cell
Null == -1
\* JavaScript undefined read from an array past its bounds; no array of
\* hole positions equals it
Undefined == << -1 >>

\* JavaScript null of the Assistant's `string | null` hint
NoHint == "(null)"
\* no getGameHint call has settled since the last request
NoResponse == [ rejected |-> FALSE, value |-> "(none)" ]

\* the concrete-rabbit variant is not mounted
NoConcreteGame == [ holeCount |-> 0, rabbitIndex |-> -1, day |-> 0,
                    history |-> << >>, status |-> "(none)",
                    lastCheckedIndex |-> -1, rabbitPath |-> << >>,
                    selectedHole |-> -1, isProcessing |-> FALSE ]

VARIABLES
    holeCount,          \* gameState.holeCount
    possibleHoles,      \* gameState.possibleHoles
    candidatesHistory,  \* gameState.candidatesHistory
    day,                \* gameState.day
    history,            \* gameState.history
    status,             \* gameState.status
    lastCheckedIndex,   \* gameState.lastCheckedIndex
    rabbitPath,         \* gameState.rabbitPath
    selectedHole,       \* useState selectedHole
    isProcessing,       \* useState isProcessing
    phase,              \* useState phase
    replayIndex,        \* useState replayIndex
    isPlayingReplay,    \* useState isPlayingReplay
    pc,                 \* position of the running handleCheckHole call
    call,               \* locals of the running handleCheckHole call
    usedFallback,       \* backtrackPath of the last win took its else branch
    lastOp,             \* name of the handler or continuation that ran last
    hint,               \* Assistant: useState hint
    loading,            \* Assistant: useState loading
    lastResponse,       \* how the last getGameHint call settled
    concrete            \* the concrete-rabbit variant: gameState and useState

gameVars == << holeCount, possibleHoles, candidatesHistory, day, history,
               status, lastCheckedIndex, rabbitPath >>
uiVars == << selectedHole, isProcessing, phase, replayIndex, isPlayingReplay >>
vars == << holeCount, possibleHoles, candidatesHistory, day, history,
           status, lastCheckedIndex, rabbitPath, selectedHole, isProcessing,
           phase, replayIndex, isPlayingReplay, pc, call, usedFallback,
           lastOp, hint, loading, lastResponse, concrete >>
assistantVars == << hint, loading, lastResponse >>

\* ----------------------------------------------------------- array helpers
Range(s) == { s[k] : k \in 1..Len(s) }

Abs(x) == IF x < 0 THEN -x ELSE x

MinOf(S) == CHOOSE m \in S : \A x \in S : m <= x

RECURSIVE SortAscending(_)
\* Array.from(set).sort((a, b) => a - b)
SortAscending(S) ==
    IF S = {} THEN << >>
    ELSE LET m == MinOf(S) IN << m >> \o SortAscending(S \ {m})

\* Array.from({ length: n }, (_, i) => i)
AllHoles(n) == [ k \in 1..n |-> k - 1 ]

\* array.slice(0, -1)
SliceOffLast(s) == IF Len(s) = 0 THEN << >> ELSE SubSeq(s, 1, Len(s) - 1)

\* array[array.length - 1]
LastOrUndefined(s) == IF Len(s) = 0 THEN Undefined ELSE s[Len(s)]

\* ------------------------------------------------------- belief-state rule
\* mutant of IsWin: the length test is dropped
IsWinFirstOnly(holes, targetHole) == Len(holes) >= 1 /\ holes[1] = targetHole

\* possibleHoles.length === 1 && possibleHoles[0] === targetHole
IsWin(holes, targetHole) == Len(holes) = 1 /\ holes[1] = targetHole

\* mutant of AfterCheckCandidates: the inspected hole is not removed
AfterCheckCandidatesKeepsAll(holes, targetHole) == holes

\* possibleHoles.filter(h => h !== targetHole)
AfterCheckCandidates(holes, targetHole) ==
    SelectSeq(holes, LAMBDA h : h # targetHole)

\* mutant of NextPossibleHoles: the right neighbour is clipped one too late
NextPossibleHolesOffByOne(afterCheck, n) ==
    SortAscending(UNION { (IF pos - 1 >= 0 THEN {pos - 1} ELSE {})
                          \cup (IF pos + 1 <= n THEN {pos + 1} ELSE {})
                          : pos \in Range(afterCheck) })

\* mutant of NextPossibleHoles: the rabbit may also stay where it is
NextPossibleHolesMayStay(afterCheck, n) ==
    SortAscending(UNION { {pos}
                          \cup (IF pos - 1 >= 0 THEN {pos - 1} ELSE {})
                          \cup (IF pos + 1 < n THEN {pos + 1} ELSE {})
                          : pos \in Range(afterCheck) })

\* the forEach that fills nextDayCandidatesSet, then the sort
NextPossibleHoles(afterCheck, n) ==
    SortAscending(UNION { (IF pos - 1 >= 0 THEN {pos - 1} ELSE {})
                          \cup (IF pos + 1 < n THEN {pos + 1} ELSE {})
                          : pos \in Range(afterCheck) })

HistoryEntry(d, hole, f, remaining) ==
    [ day |-> d, checkedHoleIndex |-> hole, found |-> f,
      remainingPossibilitiesCount |-> remaining ]

\* ------------------------------------------------------- path reconstructor
\* mutant of ValidParents: any neighbour of currentPos, candidate or not
ValidParentsAnyAdjacent(candidatesForDay, checkedHoleThatDay, currentPos) ==
    SelectSeq(<< currentPos - 1, currentPos + 1 >>,
              LAMBDA p : p # checkedHoleThatDay)

\* validParents of one backward step
ValidParents(candidatesForDay, checkedHoleThatDay, currentPos) ==
    SelectSeq(candidatesForDay,
              LAMBDA p : p # checkedHoleThatDay /\ Abs(p - currentPos) = 1)

RECURSIVE BacktrackFrom(_, _, _, _, _, _)
\* the loop of backtrackPath from code index i (sequence index i + 1) down
\* to 0: every run the random choices allow, as [path, fallback] records
BacktrackFrom(ch, hist, i, currentPos, path, fb) ==
    IF i < 0 THEN { [ path |-> path, fallback |-> fb ] }
    ELSE LET candidatesForDay == ch[i + 1]
             checkedHoleThatDay == hist[i + 1].checkedHoleIndex
             validParents ==
                 ValidParents(candidatesForDay, checkedHoleThatDay, currentPos)
         IN IF Len(validParents) > 0
            THEN UNION { BacktrackFrom(ch, hist, i - 1, validParents[k],
                                       << validParents[k] >> \o path, fb)
                         : k \in 1..Len(validParents) }
            ELSE BacktrackFrom(ch, hist, i - 1, currentPos,
                               << candidatesForDay[1] >> \o path, TRUE)

backtrackPath(ch, hist, winningHole) ==
    BacktrackFrom(ch, hist, Len(ch) - 2, winningHole, << winningHole >>, FALSE)

\* ------------------------------------------------------------------ state
NoCall == [ targetHole |-> Null, possibleHoles |-> << >>, day |-> 0,
            history |-> << >>, candidatesHistory |-> << >>, holeCount |-> 0,
            afterCheckCandidates |-> << >> ]

\* the render reads gameState.possibleHoles.length: with possibleHoles
\* undefined it throws and React unmounts the component
Mounted == possibleHoles # Undefined

isReplayMode == replayIndex # Null /\ status = WON

Init ==
    /\ holeCount = initialHoleCount
    /\ possibleHoles = AllHoles(initialHoleCount)
    /\ candidatesHistory = << AllHoles(initialHoleCount) >>
    /\ day = 1
    /\ history = << >>
    /\ status = PLAYING
    /\ lastCheckedIndex = Null
    /\ rabbitPath = << >>
    /\ selectedHole = Null
    /\ isProcessing = FALSE
    /\ phase = "day"
    /\ replayIndex = Null
    /\ isPlayingReplay = FALSE
    /\ pc = "idle"
    /\ call = NoCall
    /\ usedFallback = FALSE
    /\ lastOp = "init"
    /\ concrete = NoConcreteGame
    /\ hint = NoHint
    /\ loading = FALSE
    /\ lastResponse = NoResponse

\* ------------------------------------------------------------- inspection
\* mutant of handleCheckHole: the early return forgets the status test
handleCheckHoleAnyStatus(index) ==
    /\ Mounted
    /\ lastOp' = "handleCheckHole"
    /\ UNCHANGED concrete
    /\ UNCHANGED assistantVars
    /\ IF index = Null \/ isProcessing
       THEN UNCHANGED << gameVars, uiVars, pc, call, usedFallback >>
       ELSE /\ Len(history) < MaxHistory
            /\ selectedHole' = index
            /\ isProcessing' = TRUE
            /\ pc' = "inspect"
            /\ call' = [ targetHole |-> index,
                         possibleHoles |-> possibleHoles,
                         day |-> day,
                         history |-> history,
                         candidatesHistory |-> candidatesHistory,
                         holeCount |-> holeCount,
                         afterCheckCandidates |-> << >> ]
            /\ UNCHANGED << gameVars, phase, replayIndex, isPlayingReplay,
                            usedFallback >>

\* handleCheckHole(index) up to its first await; the early return is the
\* function's own guard
handleCheckHole(index) ==
    /\ Mounted
    /\ lastOp' = "handleCheckHole"
    /\ UNCHANGED concrete
    /\ UNCHANGED assistantVars
    /\ IF index = Null \/ status # PLAYING \/ isProcessing
       THEN UNCHANGED << gameVars, uiVars, pc, call, usedFallback >>
       ELSE /\ Len(history) < MaxHistory
            /\ selectedHole' = index
            /\ isProcessing' = TRUE
            /\ pc' = "inspect"
            /\ call' = [ targetHole |-> index,
                         possibleHoles |-> possibleHoles,
                         day |-> day,
                         history |-> history,
                         candidatesHistory |-> candidatesHistory,
                         holeCount |-> holeCount,
                         afterCheckCandidates |-> << >> ]
            /\ UNCHANGED << gameVars, phase, replayIndex, isPlayingReplay,
                            usedFallback >>

\* mutant of CheckWin: the winning turn also advances the day
CheckWinAdvancesDay ==
    /\ pc = "inspect"
    /\ IsWin(call.possibleHoles, call.targetHole)
    /\ \E run \in backtrackPath(call.candidatesHistory, call.history,
                                call.targetHole) :
          /\ rabbitPath' = run.path
          /\ usedFallback' = run.fallback
    /\ status' = WON
    /\ history' = Append(history, HistoryEntry(call.day, call.targetHole, TRUE, 0))
    /\ lastCheckedIndex' = call.targetHole
    /\ day' = day + 1
    /\ isProcessing' = FALSE
    /\ selectedHole' = Null
    /\ pc' = "idle"
    /\ call' = NoCall
    /\ lastOp' = "CheckWin"
    /\ UNCHANGED concrete
    /\ UNCHANGED assistantVars
    /\ UNCHANGED << holeCount, possibleHoles, candidatesHistory, phase,
                    replayIndex, isPlayingReplay >>

\* after the fox animation: the win branch
CheckWin ==
    /\ pc = "inspect"
    /\ IsWin(call.possibleHoles, call.targetHole)
    /\ \E run \in backtrackPath(call.candidatesHistory, call.history,
                                call.targetHole) :
          /\ rabbitPath' = run.path
          /\ usedFallback' = run.fallback
    /\ status' = WON
    /\ history' = Append(history, HistoryEntry(call.day, call.targetHole, TRUE, 0))
    /\ lastCheckedIndex' = call.targetHole
    /\ isProcessing' = FALSE
    /\ selectedHole' = Null
    /\ pc' = "idle"
    /\ call' = NoCall
    /\ lastOp' = "CheckWin"
    /\ UNCHANGED concrete
    /\ UNCHANGED assistantVars
    /\ UNCHANGED << holeCount, possibleHoles, candidatesHistory, day, phase,
                    replayIndex, isPlayingReplay >>

\* mutant of Sunset: the elimination is not stored at sunset
SunsetStoresNothing ==
    /\ pc = "inspect"
    /\ ~IsWin(call.possibleHoles, call.targetHole)
    /\ phase' = "sunset"
    /\ LET afterCheck == AfterCheckCandidates(call.possibleHoles, call.targetHole)
       IN /\ possibleHoles' = possibleHoles
          /\ call' = [ call EXCEPT !.afterCheckCandidates = afterCheck ]
    /\ lastCheckedIndex' = Null
    /\ pc' = "sunset"
    /\ lastOp' = "Sunset"
    /\ UNCHANGED concrete
    /\ UNCHANGED assistantVars
    /\ UNCHANGED << holeCount, candidatesHistory, day, history, status,
                    rabbitPath, selectedHole, isProcessing, replayIndex,
                    isPlayingReplay, usedFallback >>

\* after the fox animation: the miss branch up to the sunset await
Sunset ==
    /\ pc = "inspect"
    /\ ~IsWin(call.possibleHoles, call.targetHole)
    /\ phase' = "sunset"
    /\ LET afterCheck == AfterCheckCandidates(call.possibleHoles, call.targetHole)
       IN /\ possibleHoles' = afterCheck
          /\ call' = [ call EXCEPT !.afterCheckCandidates = afterCheck ]
    /\ lastCheckedIndex' = Null
    /\ pc' = "sunset"
    /\ lastOp' = "Sunset"
    /\ UNCHANGED concrete
    /\ UNCHANGED assistantVars
    /\ UNCHANGED << holeCount, candidatesHistory, day, history, status,
                    rabbitPath, selectedHole, isProcessing, replayIndex,
                    isPlayingReplay, usedFallback >>

\* the fox leaves and the night begins
Night ==
    /\ pc = "sunset"
    /\ selectedHole' = Null
    /\ phase' = "night"
    /\ pc' = "night"
    /\ lastOp' = "Night"
    /\ UNCHANGED concrete
    /\ UNCHANGED assistantVars
    /\ UNCHANGED << gameVars, isProcessing, replayIndex, isPlayingReplay,
                    call, usedFallback >>

\* mutant of Sunrise: the record counts the candidates before the check
SunriseCountsBeforeCheck ==
    /\ pc = "night"
    /\ LET nextPossibleHoles ==
               NextPossibleHoles(call.afterCheckCandidates, call.holeCount)
           newEntry == HistoryEntry(call.day, call.targetHole, FALSE,
                                    Len(call.possibleHoles))
       IN /\ day' = day + 1
          /\ history' = Append(history, newEntry)
          /\ possibleHoles' = nextPossibleHoles
          /\ candidatesHistory' = Append(candidatesHistory, nextPossibleHoles)
    /\ phase' = "sunrise"
    /\ pc' = "sunrise"
    /\ lastOp' = "Sunrise"
    /\ UNCHANGED concrete
    /\ UNCHANGED assistantVars
    /\ UNCHANGED << holeCount, status, lastCheckedIndex, rabbitPath,
                    selectedHole, isProcessing, replayIndex, isPlayingReplay,
                    call, usedFallback >>

\* mutant of Sunrise: a turn limit ends the game as LOST
SunriseTurnLimit ==
    /\ pc = "night"
    /\ LET nextPossibleHoles ==
               NextPossibleHoles(call.afterCheckCandidates, call.holeCount)
           newEntry == HistoryEntry(call.day, call.targetHole, FALSE,
                                    Len(call.afterCheckCandidates))
       IN /\ day' = day + 1
          /\ history' = Append(history, newEntry)
          /\ possibleHoles' = nextPossibleHoles
          /\ candidatesHistory' = Append(candidatesHistory, nextPossibleHoles)
    /\ status' = IF day + 1 > 3 THEN LOST ELSE status
    /\ phase' = "sunrise"
    /\ pc' = "sunrise"
    /\ lastOp' = "Sunrise"
    /\ UNCHANGED concrete
    /\ UNCHANGED assistantVars
    /\ UNCHANGED << holeCount, lastCheckedIndex, rabbitPath,
                    selectedHole, isProcessing, replayIndex, isPlayingReplay,
                    call, usedFallback >>

\* mutant of Sunrise: the snapshot is not appended to candidatesHistory
SunriseNoSnapshot ==
    /\ pc = "night"
    /\ LET nextPossibleHoles ==
               NextPossibleHoles(call.afterCheckCandidates, call.holeCount)
           newEntry == HistoryEntry(call.day, call.targetHole, FALSE,
                                    Len(call.afterCheckCandidates))
       IN /\ day' = day + 1
          /\ history' = Append(history, newEntry)
          /\ possibleHoles' = nextPossibleHoles
          /\ candidatesHistory' = candidatesHistory
    /\ phase' = "sunrise"
    /\ pc' = "sunrise"
    /\ lastOp' = "Sunrise"
    /\ UNCHANGED concrete
    /\ UNCHANGED assistantVars
    /\ UNCHANGED << holeCount, status, lastCheckedIndex, rabbitPath,
                    selectedHole, isProcessing, replayIndex, isPlayingReplay,
                    call, usedFallback >>

\* the nightly move: expansion, turn record, new day
Sunrise ==
    /\ pc = "night"
    /\ LET nextPossibleHoles ==
               NextPossibleHoles(call.afterCheckCandidates, call.holeCount)
           newEntry == HistoryEntry(call.day, call.targetHole, FALSE,
                                    Len(call.afterCheckCandidates))
       IN /\ day' = day + 1
          /\ history' = Append(history, newEntry)
          /\ possibleHoles' = nextPossibleHoles
          /\ candidatesHistory' = Append(candidatesHistory, nextPossibleHoles)
    /\ phase' = "sunrise"
    /\ pc' = "sunrise"
    /\ lastOp' = "Sunrise"
    /\ UNCHANGED concrete
    /\ UNCHANGED assistantVars
    /\ UNCHANGED << holeCount, status, lastCheckedIndex, rabbitPath,
                    selectedHole, isProcessing, replayIndex, isPlayingReplay,
                    call, usedFallback >>

\* back to day: input is accepted again
Daybreak ==
    /\ pc = "sunrise"
    /\ phase' = "day"
    /\ isProcessing' = FALSE
    /\ pc' = "idle"
    /\ call' = NoCall
    /\ lastOp' = "Daybreak"
    /\ UNCHANGED concrete
    /\ UNCHANGED assistantVars
    /\ UNCHANGED << gameVars, selectedHole, replayIndex, isPlayingReplay,
                    usedFallback >>

\* mutant of undoLastMove: the early return forgets isProcessing
undoLastMoveWhileProcessing ==
    /\ Mounted
    /\ ~isReplayMode
    /\ lastOp' = "undoLastMove"
    /\ UNCHANGED concrete
    /\ UNCHANGED assistantVars
    /\ IF Len(history) = 0
       THEN UNCHANGED << gameVars, uiVars, pc, call, usedFallback >>
       ELSE LET newHistory == SliceOffLast(history)
                newCandidatesHistory == SliceOffLast(candidatesHistory)
                previousPossibleHoles == LastOrUndefined(newCandidatesHistory)
            IN /\ day' = day - 1
               /\ history' = newHistory
               /\ possibleHoles' = previousPossibleHoles
               /\ candidatesHistory' = newCandidatesHistory
               /\ status' = PLAYING
               /\ lastCheckedIndex' = Null
               /\ rabbitPath' = << >>
               /\ selectedHole' = Null
               /\ phase' = "day"
               /\ UNCHANGED << holeCount, isProcessing, replayIndex,
                               isPlayingReplay, pc, call, usedFallback >>

\* mutant of undoLastMove: the status is not set back to PLAYING
undoLastMoveKeepsStatus ==
    /\ Mounted
    /\ ~isReplayMode
    /\ lastOp' = "undoLastMove"
    /\ UNCHANGED concrete
    /\ UNCHANGED assistantVars
    /\ IF Len(history) = 0 \/ isProcessing
       THEN UNCHANGED << gameVars, uiVars, pc, call, usedFallback >>
       ELSE LET newHistory == SliceOffLast(history)
                newCandidatesHistory == SliceOffLast(candidatesHistory)
                previousPossibleHoles == LastOrUndefined(newCandidatesHistory)
            IN /\ day' = day - 1
               /\ history' = newHistory
               /\ possibleHoles' = previousPossibleHoles
               /\ candidatesHistory' = newCandidatesHistory
               /\ lastCheckedIndex' = Null
               /\ rabbitPath' = << >>
               /\ selectedHole' = Null
               /\ phase' = "day"
               /\ UNCHANGED << holeCount, status, isProcessing, replayIndex,
                               isPlayingReplay, pc, call, usedFallback >>

\* mutant of undoLastMove: the undo buttons stay enabled in replay mode
undoLastMoveInReplay ==
    /\ Mounted
    /\ lastOp' = "undoLastMove"
    /\ UNCHANGED concrete
    /\ UNCHANGED assistantVars
    /\ IF Len(history) = 0 \/ isProcessing
       THEN UNCHANGED << gameVars, uiVars, pc, call, usedFallback >>
       ELSE LET newHistory == SliceOffLast(history)
                newCandidatesHistory == SliceOffLast(candidatesHistory)
                previousPossibleHoles == LastOrUndefined(newCandidatesHistory)
            IN /\ day' = day - 1
               /\ history' = newHistory
               /\ possibleHoles' = previousPossibleHoles
               /\ candidatesHistory' = newCandidatesHistory
               /\ status' = PLAYING
               /\ lastCheckedIndex' = Null
               /\ rabbitPath' = << >>
               /\ selectedHole' = Null
               /\ phase' = "day"
               /\ UNCHANGED << holeCount, isProcessing, replayIndex,
                               isPlayingReplay, pc, call, usedFallback >>

\* ------------------------------------------------------------------- undo
\* the undo buttons are disabled in replay mode; the other two conditions
\* of the buttons are the function's own guard
undoLastMove ==
    /\ Mounted
    /\ ~isReplayMode
    /\ lastOp' = "undoLastMove"
    /\ UNCHANGED concrete
    /\ UNCHANGED assistantVars
    /\ IF Len(history) = 0 \/ isProcessing
       THEN UNCHANGED << gameVars, uiVars, pc, call, usedFallback >>
       ELSE LET newHistory == SliceOffLast(history)
                newCandidatesHistory == SliceOffLast(candidatesHistory)
                previousPossibleHoles == LastOrUndefined(newCandidatesHistory)
            IN /\ day' = day - 1
               /\ history' = newHistory
               /\ possibleHoles' = previousPossibleHoles
               /\ candidatesHistory' = newCandidatesHistory
               /\ status' = PLAYING
               /\ lastCheckedIndex' = Null
               /\ rabbitPath' = << >>
               /\ selectedHole' = Null
               /\ phase' = "day"
               /\ UNCHANGED << holeCount, isProcessing, replayIndex,
                               isPlayingReplay, pc, call, usedFallback >>

\* ------------------------------------------------- restart and hole count
\* mutant of ResetTo: the reconstructed path of the last game is kept
ResetToKeepsPath(newHoleCount) ==
    /\ holeCount' = newHoleCount
    /\ possibleHoles' = AllHoles(newHoleCount)
    /\ candidatesHistory' = << AllHoles(newHoleCount) >>
    /\ day' = 1
    /\ history' = << >>
    /\ status' = PLAYING
    /\ lastCheckedIndex' = Null
    /\ selectedHole' = Null
    /\ replayIndex' = Null
    /\ isPlayingReplay' = FALSE
    /\ UNCHANGED << rabbitPath, isProcessing, phase, pc, call, usedFallback >>

ResetTo(newHoleCount) ==
    /\ holeCount' = newHoleCount
    /\ possibleHoles' = AllHoles(newHoleCount)
    /\ candidatesHistory' = << AllHoles(newHoleCount) >>
    /\ day' = 1
    /\ history' = << >>
    /\ status' = PLAYING
    /\ lastCheckedIndex' = Null
    /\ rabbitPath' = << >>
    /\ selectedHole' = Null
    /\ replayIndex' = Null
    /\ isPlayingReplay' = FALSE
    /\ UNCHANGED << isProcessing, phase, pc, call, usedFallback >>

\* the restart buttons: disabled while processing; the bottom "New Game"
\* button is rendered only when the game is over and not in replay
resetGame ==
    /\ Mounted
    /\ ~isProcessing \/ (status # PLAYING /\ ~isReplayMode)
    /\ lastOp' = "resetGame"
    /\ UNCHANGED concrete
    /\ UNCHANGED assistantVars
    /\ ResetTo(holeCount)

\* Math.min(10, Math.max(3, n))
Clamp(n) == IF n < MIN_HOLES THEN MIN_HOLES
            ELSE IF n > MAX_HOLES THEN MAX_HOLES ELSE n

\* the +/- buttons are disabled while processing and in replay mode; at a
\* bound the clamp makes the call a no-op
changeHoleCount(delta) ==
    /\ Mounted
    /\ ~isProcessing
    /\ ~isReplayMode
    /\ lastOp' = "changeHoleCount"
    /\ UNCHANGED concrete
    /\ UNCHANGED assistantVars
    /\ LET newCount == Clamp(holeCount + delta)
       IN /\ newCount <= MaxHoleCount
          /\ IF newCount # holeCount
             THEN ResetTo(newCount)
             ELSE UNCHANGED << gameVars, uiVars, pc, call, usedFallback >>

\* ----------------------------------------------------------------- replay
startReplay ==
    /\ Mounted
    /\ status = WON
    /\ ~isReplayMode
    /\ replayIndex' = 0
    /\ isPlayingReplay' = TRUE
    /\ lastOp' = "startReplay"
    /\ UNCHANGED concrete
    /\ UNCHANGED assistantVars
    /\ UNCHANGED << gameVars, selectedHole, isProcessing, phase, pc, call,
                    usedFallback >>

toggleAutoReplay ==
    /\ Mounted
    /\ isReplayMode
    /\ isPlayingReplay' = ~isPlayingReplay
    /\ lastOp' = "toggleAutoReplay"
    /\ UNCHANGED concrete
    /\ UNCHANGED assistantVars
    /\ UNCHANGED << gameVars, selectedHole, isProcessing, phase, replayIndex,
                    pc, call, usedFallback >>

\* mutant of ReplayTick: at the last day the replay starts over
ReplayTickLoops ==
    /\ Mounted
    /\ isPlayingReplay
    /\ replayIndex # Null
    /\ IF replayIndex < Len(history) - 1
       THEN replayIndex' = replayIndex + 1 /\ UNCHANGED isPlayingReplay
       ELSE replayIndex' = 0 /\ UNCHANGED isPlayingReplay
    /\ lastOp' = "ReplayTick"
    /\ UNCHANGED concrete
    /\ UNCHANGED assistantVars
    /\ UNCHANGED << gameVars, selectedHole, isProcessing, phase, pc, call,
                    usedFallback >>

\* one tick of the auto-play interval
ReplayTick ==
    /\ Mounted
    /\ isPlayingReplay
    /\ replayIndex # Null
    /\ IF replayIndex < Len(history) - 1
       THEN replayIndex' = replayIndex + 1 /\ UNCHANGED isPlayingReplay
       ELSE isPlayingReplay' = FALSE /\ UNCHANGED replayIndex
    /\ lastOp' = "ReplayTick"
    /\ UNCHANGED concrete
    /\ UNCHANGED assistantVars
    /\ UNCHANGED << gameVars, selectedHole, isProcessing, phase, pc, call,
                    usedFallback >>

\* mutant of nextReplayDay: the end test is off by one
nextReplayDayPastEnd ==
    /\ Mounted
    /\ isReplayMode
    /\ isPlayingReplay' = FALSE
    /\ replayIndex' = IF replayIndex # Null /\ replayIndex < Len(history)
                      THEN replayIndex + 1 ELSE replayIndex
    /\ lastOp' = "nextReplayDay"
    /\ UNCHANGED concrete
    /\ UNCHANGED assistantVars
    /\ UNCHANGED << gameVars, selectedHole, isProcessing, phase, pc, call,
                    usedFallback >>

\* the cursor functions test the ends of the replay themselves, as the
\* disabled state of their buttons does
nextReplayDay ==
    /\ Mounted
    /\ isReplayMode
    /\ isPlayingReplay' = FALSE
    /\ replayIndex' = IF replayIndex # Null /\ replayIndex < Len(history) - 1
                      THEN replayIndex + 1 ELSE replayIndex
    /\ lastOp' = "nextReplayDay"
    /\ UNCHANGED concrete
    /\ UNCHANGED assistantVars
    /\ UNCHANGED << gameVars, selectedHole, isProcessing, phase, pc, call,
                    usedFallback >>

prevReplayDay ==
    /\ Mounted
    /\ isReplayMode
    /\ isPlayingReplay' = FALSE
    /\ replayIndex' = IF replayIndex # Null /\ replayIndex > 0
                      THEN replayIndex - 1 ELSE replayIndex
    /\ lastOp' = "prevReplayDay"
    /\ UNCHANGED concrete
    /\ UNCHANGED assistantVars
    /\ UNCHANGED << gameVars, selectedHole, isProcessing, phase, pc, call,
                    usedFallback >>

\* mutant of closeReplay: leaving the replay also reopens the game
closeReplayReopens ==
    /\ Mounted
    /\ isReplayMode
    /\ isPlayingReplay' = FALSE
    /\ replayIndex' = Null
    /\ status' = PLAYING
    /\ lastOp' = "closeReplay"
    /\ UNCHANGED concrete
    /\ UNCHANGED assistantVars
    /\ UNCHANGED << holeCount, possibleHoles, candidatesHistory, day, history,
                    lastCheckedIndex, rabbitPath, selectedHole, isProcessing,
                    phase, pc, call, usedFallback >>

closeReplay ==
    /\ Mounted
    /\ isReplayMode
    /\ isPlayingReplay' = FALSE
    /\ replayIndex' = Null
    /\ lastOp' = "closeReplay"
    /\ UNCHANGED concrete
    /\ UNCHANGED assistantVars
    /\ UNCHANGED << gameVars, selectedHole, isProcessing, phase, pc, call,
                    usedFallback >>

\* ---------------------------------------------------------- specification
Next ==
    \/ \E index \in 0..(holeCount - 1) : handleCheckHole(index)
    \/ CheckWin
    \/ Sunset
    \/ Night
    \/ Sunrise
    \/ Daybreak
    \/ undoLastMove
    \/ resetGame
    \/ \E delta \in {-1, 1} : changeHoleCount(delta)
    \/ startReplay
    \/ toggleAutoReplay
    \/ ReplayTick
    \/ nextReplayDay
    \/ prevReplayDay
    \/ closeReplay

Spec == Init /\ [][Next]_vars

\* a player who starts the replay of a won game and then only watches; the
\* interval timer keeps firing while auto-play is on
NextAutoPlay ==
    \/ \E index \in 0..(holeCount - 1) : handleCheckHole(index)
    \/ CheckWin
    \/ Sunset
    \/ Night
    \/ Sunrise
    \/ Daybreak
    \/ \E delta \in {-1, 1} : changeHoleCount(delta)
    \/ startReplay
    \/ ReplayTick

SpecAutoPlay == Init /\ [][NextAutoPlay]_vars /\ WF_vars(ReplayTick)

\* ------------------------------------------ the Assistant and its service
\* The Assistant is rendered by the App component of src/App.tsx, which
\* selects a hole first and checks it with a separate button, resolves a
\* turn in one update and has no undo.

\* largest hole count explored with the Assistant's host
MaxHostHoleCount == 5
\* largest number of turn records of a game of the Assistant's host
MaxHostHistory == 2

hostInitialHoleCount == 5

\* the strings of geminiService.ts and Assistant.tsx
SilentPlaceholder ==
    "The Wise Owl is silent right now. Try relying on your instincts!"
NetworkErrorPlaceholder ==
    "I couldn't reach the Wise Owl (Network Error). Check your connection or API key."
FogPlaceholder ==
    "The Wise Owl is having trouble seeing through the fog. Please try again."

\* how ai.models.generateContent can settle: a response with text, a
\* response whose text is empty or undefined, a rejection
ExternalOutcomes ==
    { [ rejected |-> FALSE, text |-> "Check hole 2 next." ],
      [ rejected |-> FALSE, text |-> "" ],
      [ rejected |-> TRUE, text |-> "" ] }

\* JavaScript a || b on a `string | undefined` operand
OrElse(text, placeholder) == IF text = "" THEN placeholder ELSE text

\* mutant of getGameHint: the rejection of the external call is rethrown
getGameHintRethrows(outcome) ==
    IF outcome.rejected
    THEN [ rejected |-> TRUE, value |-> "" ]
    ELSE [ rejected |-> FALSE,
           value |-> OrElse(outcome.text, SilentPlaceholder) ]

\* the try/catch of getGameHint around the external call
getGameHint(outcome) ==
    IF outcome.rejected
    THEN [ rejected |-> FALSE, value |-> NetworkErrorPlaceholder ]
    ELSE [ rejected |-> FALSE,
           value |-> OrElse(outcome.text, SilentPlaceholder) ]

\* the Assistant's effect on history.length, run with the commit that
\* changes it: an empty history clears the hint
resetHintEffect(newHistory, oldHistory, currentHint) ==
    IF Len(newHistory) # Len(oldHistory) /\ Len(newHistory) = 0
    THEN NoHint
    ELSE currentHint

HostInit ==
    /\ holeCount = hostInitialHoleCount
    /\ possibleHoles = AllHoles(hostInitialHoleCount)
    /\ candidatesHistory = << AllHoles(hostInitialHoleCount) >>
    /\ day = 1
    /\ history = << >>
    /\ status = PLAYING
    /\ lastCheckedIndex = Null
    /\ rabbitPath = << >>
    /\ selectedHole = Null
    /\ isProcessing = FALSE
    /\ phase = "day"
    /\ replayIndex = Null
    /\ isPlayingReplay = FALSE
    /\ pc = "idle"
    /\ call = NoCall
    /\ usedFallback = FALSE
    /\ lastOp = "init"
    /\ concrete = NoConcreteGame
    /\ hint = NoHint
    /\ loading = FALSE
    /\ lastResponse = NoResponse

\* a Hole's onSelect; the holes are disabled when the game is over, while
\* processing and in replay mode
hostSelectHole(index) ==
    /\ status = PLAYING
    /\ ~isProcessing
    /\ ~isReplayMode
    /\ selectedHole' = index
    /\ lastOp' = "hostSelectHole"
    /\ UNCHANGED concrete
    /\ UNCHANGED << gameVars, isProcessing, phase, replayIndex,
                    isPlayingReplay, pc, call, usedFallback, assistantVars >>

\* the host's handleCheckHole up to its await; a game is explored up to
\* maxHistory turn records
hostHandleCheckHole(maxHistory) ==
    /\ lastOp' = "hostHandleCheckHole"
    /\ UNCHANGED concrete
    /\ UNCHANGED assistantVars
    /\ IF selectedHole = Null \/ status # PLAYING \/ isProcessing
       THEN UNCHANGED << gameVars, uiVars, pc, call, usedFallback >>
       ELSE /\ Len(history) < maxHistory
            /\ isProcessing' = TRUE
            /\ pc' = "thinking"
            /\ call' = [ targetHole |-> selectedHole,
                         possibleHoles |-> possibleHoles,
                         day |-> day,
                         history |-> history,
                         candidatesHistory |-> candidatesHistory,
                         holeCount |-> holeCount,
                         afterCheckCandidates |-> << >> ]
            /\ UNCHANGED << gameVars, selectedHole, phase, replayIndex,
                            isPlayingReplay, usedFallback >>

\* the host's handleCheckHole after its await: win or miss in one update
hostCheckResult ==
    /\ pc = "thinking"
    /\ lastOp' = "hostCheckResult"
    /\ UNCHANGED concrete
    /\ IF IsWin(call.possibleHoles, call.targetHole)
       THEN /\ \E run \in backtrackPath(call.candidatesHistory, call.history,
                                        call.targetHole) :
                  /\ rabbitPath' = run.path
                  /\ usedFallback' = run.fallback
            /\ status' = WON
            /\ history' = Append(history,
                              HistoryEntry(call.day, call.targetHole, TRUE, 0))
            /\ lastCheckedIndex' = call.targetHole
            /\ UNCHANGED << holeCount, possibleHoles, candidatesHistory, day >>
       ELSE LET afterCheckCandidates ==
                    AfterCheckCandidates(call.possibleHoles, call.targetHole)
                nextPossibleHoles ==
                    NextPossibleHoles(afterCheckCandidates, call.holeCount)
                newEntry == HistoryEntry(call.day, call.targetHole, FALSE,
                                         Len(afterCheckCandidates))
            IN /\ day' = day + 1
               /\ history' = Append(history, newEntry)
               /\ possibleHoles' = nextPossibleHoles
               /\ candidatesHistory' =
                      Append(candidatesHistory, nextPossibleHoles)
               /\ lastCheckedIndex' = call.targetHole
               /\ UNCHANGED << holeCount, status, rabbitPath, usedFallback >>
    /\ isProcessing' = FALSE
    /\ selectedHole' = Null
    /\ pc' = "idle"
    /\ call' = NoCall
    /\ hint' = resetHintEffect(history', history, hint)
    /\ UNCHANGED << phase, replayIndex, isPlayingReplay, loading,
                    lastResponse >>

\* the host's resetGame(newHoleCount) with the Assistant's effect
HostResetTo(newHoleCount) ==
    /\ holeCount' = newHoleCount
    /\ possibleHoles' = AllHoles(newHoleCount)
    /\ candidatesHistory' = << AllHoles(newHoleCount) >>
    /\ day' = 1
    /\ history' = << >>
    /\ status' = PLAYING
    /\ lastCheckedIndex' = Null
    /\ rabbitPath' = << >>
    /\ selectedHole' = Null
    /\ replayIndex' = Null
    /\ hint' = resetHintEffect(<< >>, history, hint)
    /\ UNCHANGED << isProcessing, phase, isPlayingReplay, pc, call,
                    usedFallback, loading, lastResponse >>

\* the header restart button is disabled while processing; the "New Game"
\* button is rendered only when the game is over
hostResetGame ==
    /\ ~isProcessing \/ status # PLAYING
    /\ lastOp' = "hostResetGame"
    /\ UNCHANGED concrete
    /\ HostResetTo(holeCount)

\* mutant of hostChangeHoleCount: a call at a bound restarts the game
hostChangeHoleCountAlwaysResets(delta, maxHoleCount) ==
    /\ ~isProcessing
    /\ ~isReplayMode
    /\ lastOp' = "hostChangeHoleCount"
    /\ UNCHANGED concrete
    /\ LET newCount == Clamp(holeCount + delta)
       IN /\ newCount <= maxHoleCount
          /\ HostResetTo(newCount)

\* the +/- buttons of the host: disabled while processing and in replay
\* mode; boards are explored up to maxHoleCount holes
hostChangeHoleCount(delta, maxHoleCount) ==
    /\ ~isProcessing
    /\ ~isReplayMode
    /\ lastOp' = "hostChangeHoleCount"
    /\ UNCHANGED concrete
    /\ LET newCount == Clamp(holeCount + delta)
       IN /\ newCount <= maxHoleCount
          /\ IF newCount # holeCount
             THEN HostResetTo(newCount)
             ELSE UNCHANGED << gameVars, uiVars, pc, call, usedFallback,
                               assistantVars >>

\* mutant of handleAsk: asking for a hint costs a day
handleAskConsumesTurn ==
    /\ lastOp' = "handleAsk"
    /\ UNCHANGED concrete
    /\ IF loading
       THEN UNCHANGED << assistantVars, day >>
       ELSE /\ loading' = TRUE
            /\ hint' = NoHint
            /\ lastResponse' = NoResponse
            /\ day' = day + 1
    /\ UNCHANGED << holeCount, possibleHoles, candidatesHistory, history,
                    status, lastCheckedIndex, rabbitPath, uiVars, pc, call,
                    usedFallback >>

\* handleAsk up to its await
handleAsk ==
    /\ lastOp' = "handleAsk"
    /\ UNCHANGED concrete
    /\ IF loading
       THEN UNCHANGED assistantVars
       ELSE /\ loading' = TRUE
            /\ hint' = NoHint
            /\ lastResponse' = NoResponse
    /\ UNCHANGED << gameVars, uiVars, pc, call, usedFallback >>

\* the external call settles: getGameHint resolves or rejects and handleAsk
\* runs its try, catch and finally
handleAskSettled(outcome) ==
    /\ loading
    /\ LET response == getGameHint(outcome)
       IN /\ lastResponse' = response
          /\ hint' = IF response.rejected THEN FogPlaceholder
                     ELSE response.value
    /\ loading' = FALSE
    /\ lastOp' = "handleAskSettled"
    /\ UNCHANGED concrete
    /\ UNCHANGED << gameVars, uiVars, pc, call, usedFallback >>

\* the replay controls of the host: rendered when the game is won; the
\* cursor functions test the ends of the replay themselves
hostStartReplay ==
    /\ status = WON
    /\ replayIndex # 0
    /\ replayIndex' = 0
    /\ lastOp' = "hostStartReplay"
    /\ UNCHANGED concrete
    /\ UNCHANGED << gameVars, selectedHole, isProcessing, phase,
                    isPlayingReplay, pc, call, usedFallback, assistantVars >>

hostNextReplayDay ==
    /\ isReplayMode
    /\ replayIndex' = IF replayIndex # Null /\ replayIndex < Len(history) - 1
                      THEN replayIndex + 1 ELSE replayIndex
    /\ lastOp' = "hostNextReplayDay"
    /\ UNCHANGED concrete
    /\ UNCHANGED << gameVars, selectedHole, isProcessing, phase,
                    isPlayingReplay, pc, call, usedFallback, assistantVars >>

hostPrevReplayDay ==
    /\ isReplayMode
    /\ replayIndex' = IF replayIndex # Null /\ replayIndex > 0
                      THEN replayIndex - 1 ELSE replayIndex
    /\ lastOp' = "hostPrevReplayDay"
    /\ UNCHANGED concrete
    /\ UNCHANGED << gameVars, selectedHole, isProcessing, phase,
                    isPlayingReplay, pc, call, usedFallback, assistantVars >>

hostEndReplay ==
    /\ isReplayMode
    /\ replayIndex # Len(history) - 1
    /\ replayIndex' = Len(history) - 1
    /\ lastOp' = "hostEndReplay"
    /\ UNCHANGED concrete
    /\ UNCHANGED << gameVars, selectedHole, isProcessing, phase,
                    isPlayingReplay, pc, call, usedFallback, assistantVars >>

hostCloseReplay ==
    /\ isReplayMode
    /\ replayIndex' = Null
    /\ lastOp' = "hostCloseReplay"
    /\ UNCHANGED concrete
    /\ UNCHANGED << gameVars, selectedHole, isProcessing, phase,
                    isPlayingReplay, pc, call, usedFallback, assistantVars >>

NextAssistant ==
    \/ \E index \in 0..(holeCount - 1) : hostSelectHole(index)
    \/ hostHandleCheckHole(MaxHostHistory)
    \/ hostCheckResult
    \/ hostResetGame
    \/ \E delta \in {-1, 1} : hostChangeHoleCount(delta, MaxHostHoleCount)
    \/ hostStartReplay
    \/ hostNextReplayDay
    \/ hostPrevReplayDay
    \/ hostEndReplay
    \/ hostCloseReplay
    \/ handleAsk
    \/ \E outcome \in ExternalOutcomes : handleAskSettled(outcome)

SpecAssistant == HostInit /\ [][NextAssistant]_vars

\* ------------------------------------------------------ a winning player
\* the player who sweeps the inner holes up and then down: holes 1..n-2 on
\* days 1..n-2, then n-2..1
StrategyLength(n) == 2 * (n - 2)
StrategyHole(n, d) == IF d <= n - 2 THEN d ELSE StrategyLength(n) - d + 1

\* the host played by that player on every board of 3..10 holes
NextStrategy ==
    \/ /\ day <= StrategyLength(holeCount)
       /\ hostSelectHole(StrategyHole(holeCount, day))
    \/ hostHandleCheckHole(StrategyLength(holeCount))
    \/ hostCheckResult
    \/ hostResetGame
    \/ \E delta \in {-1, 1} : hostChangeHoleCount(delta, MAX_HOLES + 1)

SpecStrategy == HostInit /\ [][NextStrategy]_vars

\* ------------------------------------------------- every allowed board
\* largest number of turn records of a game on the boards of 3..10 holes
MaxBoardsHistory == 1

\* the host over the whole range of hole counts; the count is limited by
\* the code's clamp alone, the limit passed is one above it
NextBoards ==
    \/ \E index \in 0..(holeCount - 1) : hostSelectHole(index)
    \/ hostHandleCheckHole(MaxBoardsHistory)
    \/ hostCheckResult
    \/ hostResetGame
    \/ \E delta \in {-1, 1} : hostChangeHoleCount(delta, MAX_HOLES + 1)

SpecBoards == HostInit /\ [][NextBoards]_vars

\* ------------------------------------------- the concrete-rabbit variant
\* the variant that hides a rabbit in one hole and moves it after every
\* miss, run next to the belief-state host
hostVars == << gameVars, uiVars, pc, call, usedFallback, assistantVars >>

\* the turn records of the concrete variant have no candidate count
ConcreteHistoryEntry(d, hole, f) ==
    [ day |-> d, checkedHoleIndex |-> hole, found |-> f ]

\* the state after construction or resetGame with the rabbit at startPos
ConcreteInitial(newHoleCount, startPos) ==
    [ holeCount |-> newHoleCount, rabbitIndex |-> startPos, day |-> 1,
      history |-> << >>, status |-> PLAYING, lastCheckedIndex |-> Null,
      rabbitPath |-> << startPos >>, selectedHole |-> Null,
      isProcessing |-> FALSE ]

\* both variants mounted, each on its initial board of 5 holes; the rabbit
\* starts in any hole
SideBySideInit ==
    /\ holeCount = hostInitialHoleCount
    /\ possibleHoles = AllHoles(hostInitialHoleCount)
    /\ candidatesHistory = << AllHoles(hostInitialHoleCount) >>
    /\ day = 1
    /\ history = << >>
    /\ status = PLAYING
    /\ lastCheckedIndex = Null
    /\ rabbitPath = << >>
    /\ selectedHole = Null
    /\ isProcessing = FALSE
    /\ phase = "day"
    /\ replayIndex = Null
    /\ isPlayingReplay = FALSE
    /\ pc = "idle"
    /\ call = NoCall
    /\ usedFallback = FALSE
    /\ lastOp = "init"
    /\ hint = NoHint
    /\ loading = FALSE
    /\ lastResponse = NoResponse
    /\ \E startPos \in 0..(hostInitialHoleCount - 1) :
           concrete = ConcreteInitial(hostInitialHoleCount, startPos)

\* a Hole's onSelect of the concrete variant; the holes are disabled when
\* the game is over and while processing
concreteSelectHole(index) ==
    /\ concrete.status = PLAYING
    /\ ~concrete.isProcessing
    /\ concrete' = [ concrete EXCEPT !.selectedHole = index ]
    /\ lastOp' = "concreteSelectHole"
    /\ UNCHANGED hostVars

\* the concrete handleCheckHole up to its await: a found rabbit wins at
\* once, a miss starts the wait
concreteHandleCheckHole ==
    /\ lastOp' = "concreteHandleCheckHole"
    /\ UNCHANGED hostVars
    /\ IF \/ concrete.selectedHole = Null
          \/ concrete.status # PLAYING
          \/ concrete.isProcessing
       THEN UNCHANGED concrete
       ELSE LET found == concrete.rabbitIndex = concrete.selectedHole
                newEntry == ConcreteHistoryEntry(concrete.day,
                                                 concrete.selectedHole, found)
            IN IF found
               THEN concrete' =
                        [ concrete EXCEPT
                              !.history = Append(concrete.history, newEntry),
                              !.status = WON,
                              !.lastCheckedIndex = concrete.selectedHole ]
               ELSE concrete' = [ concrete EXCEPT !.isProcessing = TRUE ]

\* mutant of NextRabbitPos: the rabbit may stay in its hole
NextRabbitPosMayStay(currentRabbitPos, boardHoleCount, right) ==
    IF currentRabbitPos = 0 THEN 1
    ELSE IF currentRabbitPos = boardHoleCount - 1 THEN boardHoleCount - 2
    ELSE IF right THEN currentRabbitPos + 1 ELSE currentRabbitPos

\* the rabbit's move: inwards from an end hole, else left or right as
\* Math.random() decides
NextRabbitPos(currentRabbitPos, boardHoleCount, right) ==
    IF currentRabbitPos = 0 THEN 1
    ELSE IF currentRabbitPos = boardHoleCount - 1 THEN boardHoleCount - 2
    ELSE IF right THEN currentRabbitPos + 1 ELSE currentRabbitPos - 1

\* the concrete handleCheckHole after its await: the rabbit moves and the
\* next day begins
concreteRabbitMoves(right) ==
    /\ concrete.isProcessing
    /\ LET nextRabbitPos == NextRabbitPos(concrete.rabbitIndex,
                                          concrete.holeCount, right)
           newEntry == ConcreteHistoryEntry(concrete.day,
                                            concrete.selectedHole, FALSE)
       IN concrete' =
              [ concrete EXCEPT
                    !.rabbitIndex = nextRabbitPos,
                    !.day = concrete.day + 1,
                    !.history = Append(concrete.history, newEntry),
                    !.lastCheckedIndex = concrete.selectedHole,
                    !.rabbitPath = Append(concrete.rabbitPath, nextRabbitPos),
                    !.selectedHole = Null,
                    !.isProcessing = FALSE ]
    /\ lastOp' = "concreteRabbitMoves"
    /\ UNCHANGED hostVars

\* the concrete resetGame behind its restart button: disabled while
\* processing; Math.random() places the rabbit at startPos
concreteResetGame(startPos) ==
    /\ ~concrete.isProcessing
    /\ startPos \in 0..(concrete.holeCount - 1)
    /\ concrete' = ConcreteInitial(concrete.holeCount, startPos)
    /\ lastOp' = "concreteResetGame"
    /\ UNCHANGED hostVars

\* the +/- buttons of the concrete variant: disabled while processing;
\* boards are explored up to maxHoleCount holes
concreteChangeHoleCount(delta, startPos, maxHoleCount) ==
    /\ ~concrete.isProcessing
    /\ lastOp' = "concreteChangeHoleCount"
    /\ UNCHANGED hostVars
    /\ LET newCount == Clamp(concrete.holeCount + delta)
       IN /\ newCount <= maxHoleCount
          /\ startPos \in 0..(newCount - 1)
          /\ IF newCount # concrete.holeCount
             THEN concrete' = ConcreteInitial(newCount, startPos)
             ELSE /\ startPos = 0
                  /\ UNCHANGED concrete

\* the concrete variant has so far been given the inspections the host
\* recorded, on a board of the same size
SameRun ==
    /\ concrete.holeCount = holeCount
    /\ Len(concrete.history) <= Len(history)
    /\ \A k \in 1..Len(concrete.history) :
           concrete.history[k].checkedHoleIndex = history[k].checkedHoleIndex

\* the next inspection of the concrete variant is the one the host made on
\* the same turn
FollowsHost(index) ==
    /\ SameRun
    /\ Len(concrete.history) < Len(history)
    /\ index = history[Len(concrete.history) + 1].checkedHoleIndex

\* the concrete variant has been given every inspection the host has made,
\* or has already won
CaughtUp ==
    /\ SameRun
    /\ ~concrete.isProcessing
    /\ Len(concrete.history) = Len(history) \/ concrete.status = WON

\* the two variants side by side: the host takes its next input when the
\* concrete variant has caught up; the concrete variant is given the
\* host's inspections, follows its board size and restarts after it
NextSideBySide ==
    \/ \E index \in 0..(holeCount - 1) : CaughtUp /\ hostSelectHole(index)
    \/ hostHandleCheckHole(MaxHostHistory)
    \/ hostCheckResult
    \/ CaughtUp /\ hostResetGame
    \/ \E delta \in {-1, 1} :
           CaughtUp /\ hostChangeHoleCount(delta, MaxHostHoleCount)
    \/ \E index \in 0..(concrete.holeCount - 1) :
           FollowsHost(index) /\ concreteSelectHole(index)
    \/ concreteHandleCheckHole
    \/ \E right \in BOOLEAN : concreteRabbitMoves(right)
    \/ \E startPos \in 0..(MaxHostHoleCount - 1) :
           /\ concrete.holeCount = holeCount
           /\ ~SameRun
           /\ concreteResetGame(startPos)
    \/ \E delta \in {-1, 1}, startPos \in 0..(MaxHostHoleCount - 1) :
           /\ concrete.holeCount # holeCount
           /\ concreteChangeHoleCount(delta, startPos, MaxHostHoleCount)

SpecSideBySide == SideBySideInit /\ [][NextSideBySide]_vars

\* ================================================================= claims
\* the continuations of one handleCheckHole call
InspectOps == { "handleCheckHole", "CheckWin", "Sunset", "Night", "Sunrise",
                "Daybreak" }

\* C1: whenever status is PLAYING, possibleHoles (also the post-elimination
\* set stored during an inspection) is a non-empty subset of 0..holeCount-1
C1_PossibleHolesNonEmptySubset ==
    status = PLAYING =>
        /\ possibleHoles # Undefined
        /\ Range(possibleHoles) # {}
        /\ Range(possibleHoles) \subseteq 0..(holeCount - 1)

\* C2: after a non-winning inspect(p) on the set S, the next day's
\* possibleHoles is exactly the set of in-range positions at distance 1
\* from some position of S \ {p}
C2_ExpansionIsNeighbourSet ==
    lastOp = "Sunrise" =>
        Range(possibleHoles) =
            { q \in 0..(holeCount - 1) :
                \E s \in Range(call.possibleHoles) \ {call.targetHole} :
                    Abs(q - s) = 1 }

C2_Witness ==
    /\ lastOp = "Sunrise"
    /\ call.targetHole \in Range(call.possibleHoles)
    /\ (holeCount - 1) \in Range(call.possibleHoles) \ {call.targetHole}
    /\ Len(possibleHoles) >= 2

\* C3: an accepted inspect(p) sets status to WON exactly when possibleHoles
\* is the singleton {p} at that moment, and leaves it PLAYING otherwise
C3_WinIffSingleton ==
    [][ (pc = "inspect" /\ lastOp' \in {"CheckWin", "Sunset"}) =>
            status' = IF Range(possibleHoles) = {call.targetHole}
                      THEN WON ELSE PLAYING ]_vars

C3_Witness ==
    /\ status = WON
    /\ lastOp = "CheckWin"
    /\ Range(possibleHoles) = {lastCheckedIndex}

\* C4: in every WON state consecutive positions of rabbitPath are adjacent,
\* no position equals the hole inspected on its day, and the last position
\* is the winning hole
C4_PathValid ==
    status = WON =>
        LET D == Len(rabbitPath)
        IN /\ \A i \in 1..(D - 1) : Abs(rabbitPath[i] - rabbitPath[i + 1]) = 1
           /\ \A i \in 1..(D - 1) : rabbitPath[i] # history[i].checkedHoleIndex
           /\ rabbitPath[D] = history[Len(history)].checkedHoleIndex

\* C5: backtrackPath never executes its "no valid parent" fallback branch
C5_NoFallback == ~usedFallback

\* C6: when no inspection is in progress, candidatesHistory has one more
\* entry than there are turn records with found = false
C6_SnapshotCount ==
    ~isProcessing =>
        Len(candidatesHistory) =
            Cardinality({ i \in 1..Len(history) : ~history[i].found }) + 1

\* C7: an inspect attempted while status is WON changes none of history,
\* possibleHoles, candidatesHistory, day, status and rabbitPath
C7_InspectAfterWonRejected ==
    [][ (status = WON /\ lastOp' \in InspectOps) =>
            UNCHANGED << history, possibleHoles, candidatesHistory, day,
                         status, rabbitPath >> ]_vars

C7_Witness == status = WON /\ lastOp = "handleCheckHole"

\* C8 as stated: once WON, status leaves WON only by a restart or a
\* hole-count change
C8_WonTerminalExceptReset ==
    [][ (status = WON /\ status' # WON) =>
            lastOp' \in {"resetGame", "changeHoleCount"} ]_vars

\* C8 amended: once WON, status leaves WON only by a restart, a hole-count
\* change or an undo
C8_WonTerminalExceptResetOrUndo ==
    [][ (status = WON /\ status' # WON) =>
            lastOp' \in {"resetGame", "changeHoleCount", "undoLastMove"} ]_vars

C8_Witness ==
    /\ status = WON
    /\ lastOp = "closeReplay"
    /\ replayIndex = Null

\* C9: turn records carry consecutive 1-based day numbers in order
C9_DaysConsecutive == \A i \in 1..Len(history) : history[i].day = i

\* C10: a non-winning inspect(p) on day d appends exactly the record
\* {day d, hole p, found false} and exactly one snapshot (the new
\* possibleHoles), adds 1 to day, and changes neither holeCount, status nor
\* any earlier entry
C10_MissAppendsOneTurn ==
    [][ /\ lastOp' = "Sunrise" =>
              /\ Len(history') = Len(history) + 1
              /\ SubSeq(history', 1, Len(history)) = history
              /\ history'[Len(history')].day = day
              /\ history'[Len(history')].checkedHoleIndex = call.targetHole
              /\ history'[Len(history')].found = FALSE
              /\ candidatesHistory' = Append(candidatesHistory, possibleHoles')
              /\ day' = day + 1
              /\ holeCount' = holeCount
              /\ status' = status
        /\ lastOp' \in {"handleCheckHole", "Sunset", "Night", "Daybreak"} =>
              UNCHANGED << history, candidatesHistory, day, holeCount, status >>
      ]_vars

C10_Witness ==
    /\ lastOp = "Sunrise"
    /\ Len(history) >= 2
    /\ status = PLAYING

\* C11: a winning inspect(p) appends exactly one record {current day, p,
\* found true} and sets status WON; day, possibleHoles (= {p}),
\* candidatesHistory and holeCount are unchanged
C11_WinAppendsOneRecord ==
    [][ lastOp' = "CheckWin" =>
            /\ Len(history') = Len(history) + 1
            /\ SubSeq(history', 1, Len(history)) = history
            /\ history'[Len(history')].found = TRUE
            /\ history'[Len(history')].day = day
            /\ history'[Len(history')].checkedHoleIndex = call.targetHole
            /\ status' = WON
            /\ Range(possibleHoles') = {call.targetHole}
            /\ UNCHANGED << day, possibleHoles, candidatesHistory, holeCount >>
      ]_vars

C11_Witness ==
    /\ lastOp = "CheckWin"
    /\ history[Len(history)].found
    /\ history[Len(history)].day = day
    /\ Len(candidatesHistory) = day

\* C12: a restart or an effective hole-count change to n yields exactly the
\* fresh session of n holes
C12_ResetIsFresh ==
    [][ (lastOp' = "resetGame"
           \/ (lastOp' = "changeHoleCount" /\ holeCount' # holeCount)) =>
            /\ lastOp' = "resetGame" => holeCount' = holeCount
            /\ lastOp' = "changeHoleCount" =>
                   /\ holeCount' \in {holeCount - 1, holeCount + 1}
                   /\ holeCount' \in 3..10
            /\ Len(possibleHoles') = holeCount'
            /\ \A k \in 1..holeCount' : possibleHoles'[k] = k - 1
            /\ candidatesHistory' = << possibleHoles' >>
            /\ day' = 1
            /\ history' = << >>
            /\ status' = PLAYING
            /\ lastCheckedIndex' = Null
            /\ rabbitPath' = << >>
            /\ selectedHole' = Null
            /\ replayIndex' = Null ]_vars

C12_Witness ==
    /\ lastOp = "resetGame"
    /\ usedFallback
    /\ history = << >>
    /\ rabbitPath = << >>

\* C13: a record with found = false stores the size of S \ {p}, S being the
\* set at the start of its day and p the inspected hole; the winning record
\* stores 0
C13_RemainingCount ==
    [][ /\ lastOp' = "Sunrise" =>
              history'[Len(history')].remainingPossibilitiesCount =
                  Cardinality(Range(call.possibleHoles) \ {call.targetHole})
        /\ lastOp' = "CheckWin" =>
              history'[Len(history')].remainingPossibilitiesCount = 0 ]_vars

C13_Witness ==
    /\ lastOp = "Sunrise"
    /\ call.targetHole \notin Range(call.possibleHoles)
    /\ history[Len(history)].remainingPossibilitiesCount
           = Len(call.possibleHoles)

\* the fresh 3-hole board and the record of its first turn in scenario A
Fresh3 ==
    /\ holeCount = 3
    /\ possibleHoles = << 0, 1, 2 >>
    /\ candidatesHistory = << << 0, 1, 2 >> >>
    /\ day = 1
    /\ history = << >>
    /\ status = PLAYING

ScenarioARecord ==
    [ day |-> 1, checkedHoleIndex |-> 1, found |-> FALSE,
      remainingPossibilitiesCount |-> 2 ]

AfterScenarioA ==
    /\ holeCount = 3
    /\ possibleHoles = << 1 >>
    /\ candidatesHistory = << << 0, 1, 2 >>, << 1 >> >>
    /\ day = 2
    /\ history = << ScenarioARecord >>
    /\ status = PLAYING

\* C14: on the fresh 3-hole board inspect(1) is a miss that records
\* remaining 2 and leaves possibleHoles {1}, day 2, PLAYING; the following
\* inspect(1) wins with day still 2 and a second record with found = true
C14_ScenarioAB ==
    [][ /\ (Fresh3 /\ pc = "thinking" /\ call.targetHole = 1
               /\ lastOp' = "hostCheckResult") =>
              AfterScenarioA'
        /\ (AfterScenarioA /\ pc = "thinking" /\ call.targetHole = 1
               /\ lastOp' = "hostCheckResult") =>
              /\ status' = WON
              /\ day' = 2
              /\ Len(history') = 2
              /\ history'[1] = ScenarioARecord
              /\ history'[2].found = TRUE
              /\ UNCHANGED << possibleHoles, candidatesHistory >> ]_vars

C14_Witness ==
    /\ lastOp = "hostCheckResult"
    /\ holeCount = 3
    /\ status = WON
    /\ day = 2
    /\ Len(history) = 2
    /\ history[1] = ScenarioARecord
    /\ history[2].found
    /\ possibleHoles = << 1 >>

RECURSIVE ConsistentAt(_, _)
\* some trajectory of adjacent in-range moves ends at x on day d and avoids
\* the inspected hole on every earlier day
ConsistentAt(x, d) ==
    IF d <= 1 THEN TRUE
    ELSE \E y \in 0..(holeCount - 1) :
            /\ Abs(x - y) = 1
            /\ y # history[d - 1].checkedHoleIndex
            /\ ConsistentAt(y, d - 1)

\* C15: at the start of day d possibleHoles is exactly the set of positions
\* that end a trajectory consistent with the inspections of days 1..d-1
C15_BeliefExact ==
    (~isProcessing /\ Mounted) =>
        Range(possibleHoles) =
            { x \in 0..(holeCount - 1) : ConsistentAt(x, day) }

\* C16: rabbitPath has one position per turn record in every WON state and
\* is empty in every PLAYING state
C16_PathLength ==
    /\ status = WON => Len(rabbitPath) = Len(history)
    /\ status = PLAYING => rabbitPath = << >>

\* C17: status is always PLAYING or WON, never LOST
C17_NeverLost == status \in {PLAYING, WON} /\ status # LOST

C17_Witness ==
    /\ Len(history) = MaxHistory
    /\ status = PLAYING
    /\ ~isProcessing
    /\ Len(possibleHoles) > 1

\* C18: while an inspection is in progress no second inspect, undo, restart
\* or hole-count change takes effect, and every update of the inspection is
\* applied to the state it read when it was accepted
C18_Serialised ==
    [][ /\ (isProcessing /\ lastOp' \in {"handleCheckHole", "undoLastMove",
                                         "resetGame", "changeHoleCount"}) =>
              UNCHANGED << gameVars, uiVars, pc, call >>
        /\ pc' = "inspect" =>
              /\ call'.possibleHoles = possibleHoles'
              /\ call'.day = day'
              /\ call'.history = history'
              /\ call'.candidatesHistory = candidatesHistory'
              /\ call'.holeCount = holeCount'
        /\ pc' \in {"sunset", "night"} =>
              /\ possibleHoles' = call'.afterCheckCandidates
              /\ call'.day = day'
              /\ call'.history = history'
              /\ call'.candidatesHistory = candidatesHistory'
              /\ call'.holeCount = holeCount' ]_vars

C18_Witness ==
    /\ isProcessing
    /\ pc = "night"
    /\ lastOp = "undoLastMove"
    /\ Len(history) >= 1

\* handleCheckHole takes any number: the positions just past the last hole
\* stand for a call with an index outside 0..holeCount-1
OutOfRangeHoles == { holeCount, holeCount + 1 }

\* the program with handleCheckHole also called outside the board
NextDirect ==
    \/ Next
    \/ \E index \in OutOfRangeHoles : handleCheckHole(index)

SpecDirect == Init /\ [][NextDirect]_vars

\* C19: an inspection of a position outside 0..N-1 changes none of day,
\* history, possibleHoles, candidatesHistory and status
C19_OutOfRangeRejected ==
    [][ (pc # "idle" /\ call.targetHole \notin 0..(holeCount - 1)
            /\ lastOp' \in InspectOps) =>
            UNCHANGED << day, history, possibleHoles, candidatesHistory,
                         status >> ]_vars

\* C20: however the external text-generation call settles, getGameHint
\* resolves to a non-empty string (the advice or a fixed placeholder) and
\* the Assistant ends with loading = false and that string as its hint; the
\* catch of handleAsk never runs and the game state is untouched
C20_HintNeverFails ==
    [][ lastOp' = "handleAskSettled" =>
            /\ ~lastResponse'.rejected
            /\ lastResponse'.value \notin {"", NoHint}
            /\ loading' = FALSE
            /\ hint' = lastResponse'.value
            /\ hint' \notin {NoHint, FogPlaceholder}
            /\ UNCHANGED gameVars ]_vars

C20_Witness ==
    /\ lastOp = "handleAskSettled"
    /\ hint = NetworkErrorPlaceholder
    /\ ~loading
    /\ Len(history) > 0

\* C21: a hint request, whenever it is issued and whenever it settles,
\* changes nothing of the game: holeCount, possibleHoles, candidatesHistory,
\* day, history, status, rabbitPath, nor the selection or the inspection in
\* progress
C21_HintReadOnly ==
    [][ lastOp' \in {"handleAsk", "handleAskSettled"} =>
            UNCHANGED << holeCount, possibleHoles, candidatesHistory, day,
                         history, status, rabbitPath, lastCheckedIndex,
                         selectedHole, isProcessing, replayIndex, pc, call >>
      ]_vars

C21_Witness ==
    /\ lastOp = "handleAskSettled"
    /\ isProcessing
    /\ pc = "thinking"
    /\ Len(history) > 0

\* C22: history holds a record with found = true exactly when status is
\* WON, and then exactly one, the last
C22_FoundOnlyOnWin ==
    /\ (status = WON) <=> (\E i \in 1..Len(history) : history[i].found)
    /\ \A i \in 1..Len(history) : history[i].found => i = Len(history)

C22_Witness ==
    /\ lastOp = "undoLastMove"
    /\ usedFallback
    /\ status = PLAYING
    /\ Len(history) >= 2

\* a sequence of positions sorted ascending without a duplicate
StrictlyAscending(holes) ==
    \A i, j \in 1..Len(holes) : i < j => holes[i] < holes[j]

\* C23: possibleHoles and every entry of candidatesHistory are strictly
\* ascending sequences of positions, so the win test is the test that the
\* set is the singleton of the inspected hole
C23_Ascending ==
    /\ possibleHoles # Undefined
    /\ StrictlyAscending(possibleHoles)
    /\ \A k \in 1..Len(candidatesHistory) :
          StrictlyAscending(candidatesHistory[k])
    /\ \A p \in 0..(holeCount - 1) :
          IsWin(possibleHoles, p) <=> Range(possibleHoles) = {p}

\* C24: holeCount stays within 3..10; changeHoleCount(delta) moves it to the
\* clamped count, and a call at a bound leaves the whole game, a game in
\* progress included, as it is
C24_HoleCountClamped ==
    [][ /\ holeCount \in 3..10
        /\ holeCount' \in 3..10
        /\ lastOp' = "hostChangeHoleCount" =>
              /\ holeCount' \in {holeCount - 1, holeCount, holeCount + 1}
              /\ (holeCount \in 4..9 => holeCount' # holeCount)
              /\ (holeCount' = holeCount =>
                     UNCHANGED << gameVars, selectedHole, replayIndex >>) ]_vars

C24_Witness ==
    /\ lastOp = "hostChangeHoleCount"
    /\ holeCount = 10
    /\ Len(history) = 1
    /\ day = 2

\* C25: whenever no inspection is in progress candidatesHistory has one
\* entry per day, its first entry is the full board and its last entry is
\* possibleHoles
C25_SnapshotPerDay ==
    ~isProcessing =>
        /\ Len(candidatesHistory) = day
        /\ Len(candidatesHistory) >= 1
        /\ candidatesHistory[1] = [ k \in 1..holeCount |-> k - 1 ]
        /\ candidatesHistory[Len(candidatesHistory)] = possibleHoles

\* C26: an undo right after an inspection, winning or not, restores the
\* game state that held before that inspection
C26_UndoInvertsInspection ==
    [][ (lastOp' = "undoLastMove" /\ Len(history) > 0 /\ ~isProcessing) =>
            /\ lastOp = "CheckWin" =>
                  /\ day' = day
                  /\ history' = SubSeq(history, 1, Len(history) - 1)
                  /\ possibleHoles' = possibleHoles
                  /\ candidatesHistory' = candidatesHistory
                  /\ status' = PLAYING
                  /\ rabbitPath' = << >>
            /\ lastOp = "Daybreak" =>
                  /\ day' = day - 1
                  /\ history' = SubSeq(history, 1, Len(history) - 1)
                  /\ candidatesHistory' =
                         SubSeq(candidatesHistory, 1, Len(candidatesHistory) - 1)
                  /\ possibleHoles' =
                         candidatesHistory[Len(candidatesHistory) - 1]
                  /\ status' = PLAYING
                  /\ rabbitPath' = << >> ]_vars

\* C27: in every WON state each position of rabbitPath is one of the
\* candidates recorded for its day
C27_PathInCandidates ==
    status = WON =>
        \A i \in 1..Len(rabbitPath) :
            /\ i <= Len(candidatesHistory)
            /\ rabbitPath[i] \in Range(candidatesHistory[i])

C27_Witness ==
    /\ status = WON
    /\ lastOp = "CheckWin"
    /\ usedFallback
    /\ Len(rabbitPath) >= 3

\* C28: on every board of 3..10 holes a finite sequence of inspections from
\* the fresh state reaches WON: the sweep of the inner holes up and down is
\* never left undecided, it is won with its last inspection
C28_Winnable ==
    /\ holeCount \in 3..10
    /\ Len(history) <= StrategyLength(holeCount)
    /\ (status = PLAYING /\ ~isProcessing) =>
           /\ Len(history) < StrategyLength(holeCount)
           /\ day = Len(history) + 1
    /\ status = WON => Len(history) = StrategyLength(holeCount)

C28_Witness ==
    /\ holeCount = 10
    /\ status = WON
    /\ Len(history) = 16
    /\ lastOp = "hostCheckResult"

\* C29: a replay cursor that is not null lies in 0..history.length-1 after
\* every operation; a step forward at the last day and a step back at day 0
\* leave it where it is
C29_CursorOnPlayedDay ==
    [][ /\ replayIndex' # Null =>
              (0 <= replayIndex' /\ replayIndex' <= Len(history') - 1)
        /\ (lastOp' \in {"nextReplayDay", "ReplayTick", "hostNextReplayDay"}
               /\ replayIndex = Len(history) - 1) =>
              replayIndex' = replayIndex
        /\ (lastOp' \in {"prevReplayDay", "hostPrevReplayDay"}
               /\ replayIndex = 0) =>
              replayIndex' = replayIndex ]_vars

C29_Witness ==
    /\ lastOp = "nextReplayDay"
    /\ replayIndex = Len(history) - 1
    /\ Len(history) >= 3
    /\ Len(rabbitPath) < Len(history)

\* C30: replayIndex is not null only while status is WON
C30_ReplayOnlyWhenWon == replayIndex # Null => status = WON

C30_Witness ==
    /\ lastOp = "undoLastMove"
    /\ status = PLAYING
    /\ day >= 1
    /\ day = Len(history)
    /\ replayIndex = Null

\* C31: after startReplay, with nothing else done, every tick advances
\* replayIndex by one until it is history.length - 1; the tick at the last
\* day switches auto-play off, and then replayIndex no longer changes
C31_AutoPlayTerminates ==
    /\ [][ /\ lastOp' = "startReplay" =>
                 (replayIndex' = 0 /\ isPlayingReplay')
           /\ lastOp' = "ReplayTick" =>
                 IF replayIndex < Len(history) - 1
                 THEN replayIndex' = replayIndex + 1 /\ isPlayingReplay'
                 ELSE replayIndex' = replayIndex /\ ~isPlayingReplay'
           /\ (replayIndex # Null /\ ~isPlayingReplay) =>
                 replayIndex' = replayIndex ]_vars
    /\ (isPlayingReplay /\ replayIndex = 0) ~>
           (~isPlayingReplay /\ replayIndex = Len(history) - 1)

C31_Witness ==
    /\ lastOp = "ReplayTick"
    /\ ~isPlayingReplay
    /\ replayIndex = Len(history) - 1
    /\ Len(history) >= 3

\* C32: a non-winning inspection takes phase from day through sunset, night
\* and sunrise back to day; the elimination is stored at sunset, the
\* expansion, the record and the new day together at the end of the night;
\* a winning inspection stays in phase day; phase is day whenever
\* isProcessing is false
C32_PhaseOrder ==
    [][ /\ lastOp' = "Sunset" =>
              /\ phase = "day" /\ phase' = "sunset"
              /\ possibleHoles' =
                     SelectSeq(possibleHoles, LAMBDA h : h # call.targetHole)
              /\ UNCHANGED << day, history, candidatesHistory, status >>
        /\ lastOp' = "Night" =>
              /\ phase = "sunset" /\ phase' = "night"
              /\ UNCHANGED gameVars
        /\ lastOp' = "Sunrise" =>
              /\ phase = "night" /\ phase' = "sunrise"
              /\ day' = day + 1
              /\ Len(history') = Len(history) + 1
              /\ Len(candidatesHistory') = Len(candidatesHistory) + 1
              /\ candidatesHistory'[Len(candidatesHistory')] = possibleHoles'
        /\ lastOp' = "Daybreak" =>
              /\ phase = "sunrise" /\ phase' = "day"
              /\ ~isProcessing'
              /\ UNCHANGED gameVars
        /\ lastOp' = "CheckWin" => (phase = "day" /\ phase' = "day")
        /\ ~isProcessing' => phase' = "day"
        /\ phase' # phase =>
              lastOp' \in {"Sunset", "Night", "Sunrise", "Daybreak"} ]_vars

C32_Witness ==
    /\ lastOp = "Daybreak"
    /\ phase = "day"
    /\ ~isProcessing
    /\ Len(history) >= 2
    /\ ~history[Len(history)].found

\* C35: a restart or hole-count change that empties the history clears the
\* hint, and the hint then stays null until the user asks again, whatever
\* the interleaving with an outstanding request: the step that follows such
\* a reset never shows a hint
C35_HintResetWithGame ==
    [][ /\ ( /\ lastOp' \in {"hostResetGame", "hostChangeHoleCount"}
             /\ Len(history) > 0
             /\ history' = << >> ) => hint' = NoHint
        /\ ( /\ lastOp \in {"hostResetGame", "hostChangeHoleCount"}
             /\ history = << >>
             /\ hint = NoHint ) => hint' = NoHint ]_vars

\* C33: the belief set is sound for the concrete rabbit: on the same board
\* and the same inspections, the rabbit's hole on each day is one of the
\* holes the host held possible at the start of that day, whatever the
\* rabbit's first hole and moves
C33_BeliefSound ==
    (SameRun /\ concrete.day <= Len(candidatesHistory)) =>
        /\ concrete.rabbitIndex \in Range(candidatesHistory[concrete.day])
        /\ ( /\ concrete.day = day
             /\ status = PLAYING
             /\ ~isProcessing ) => concrete.rabbitIndex \in Range(possibleHoles)

C33_Witness ==
    /\ SameRun
    /\ lastOp = "concreteRabbitMoves"
    /\ concrete.day = day
    /\ day >= 3
    /\ status = PLAYING
    /\ Len(possibleHoles) < holeCount
    /\ concrete.rabbitIndex \in Range(possibleHoles)

\* C34: on the same board and the same inspections the concrete variant and
\* the host are WON after exactly the same turns
C34_SameWinningTurns ==
    SameRun =>
        /\ concrete.status = WON =>
               history[Len(concrete.history)].found
        /\ (status = WON /\ Len(concrete.history) = Len(history)) =>
               concrete.status = WON

====
